---- MODULE Spec2Model ----
(***************************************************************************)
(* Model of the batch conversion pipeline of main.py: filename             *)
(* sanitisation, discovery, validation, inspection, output path            *)
(* allocation, transcoding and post-inspection, with the external engines  *)
(* (ffmpeg, ffprobe), the filesystem and the platform as environment.      *)
(* File names and engine output are sequences of one-character strings.    *)
(***************************************************************************)
EXTENDS Integers, Sequences, FiniteSets, TLC

\* ---------------------------------------------------------------- bounds
MaxFiles == 2

\* ------------------------------------------------------------ characters
Lowercase ==
    {"a","b","c","d","e","f","g","h","i","j","k","l","m",
     "n","o","p","q","r","s","t","u","v","w","x","y","z"}
Uppercase ==
    {"A","B","C","D","E","F","G","H","I","J","K","L","M",
     "N","O","P","Q","R","S","T","U","V","W","X","Y","Z"}
Digits == {"0","1","2","3","4","5","6","7","8","9"}

\* the class [a-zA-Z0-9_ .] kept by re.sub
KeptChars == Lowercase \cup Uppercase \cup Digits \cup {"_", " ", "."}

\* the characters of the raw string r'~\/*?<>|:" ' that trigger a rename
TriggerChars == {"~", "\\", "/", "*", "?", "<", ">", "|", ":", "\"", " "}

\* ------------------------------------------------------- string helpers
DigitChar(d) == <<"0","1","2","3","4","5","6","7","8","9">>[d + 1]

RECURSIVE Str(_)
Str(n) == IF n < 10 THEN <<DigitChar(n)>>
          ELSE Str(n \div 10) \o <<DigitChar(n % 10)>>

\* "{:02}".format(n)
Pad2(n) == IF n < 10 THEN <<"0">> \o Str(n) ELSE Str(n)

LowerChar(c) ==
    CASE c = "V" -> "v" [] c = "I" -> "i" [] c = "D" -> "d"
      [] c = "E" -> "e" [] c = "O" -> "o" [] c = "H" -> "h"
      [] c = "R" -> "r" [] c = "B" -> "b" [] c = "A" -> "a"
      [] OTHER -> c

\* str.lower()
Lower(s) == [i \in 1..Len(s) |-> LowerChar(s[i])]

\* pat in s
Contains(s, pat) ==
    \E i \in 0..(Len(s) - Len(pat)) :
        \A j \in 1..Len(pat) : s[i + j] = pat[j]

\* index of the last "." of p, 0 when there is none
LastDot(p) ==
    IF \E i \in 1..Len(p) : p[i] = "."
    THEN CHOOSE i \in 1..Len(p) :
            p[i] = "." /\ \A j \in (i+1)..Len(p) : p[j] # "."
    ELSE 0

\* os.path.splitext: the extension starts at the last dot, unless only
\* dots precede it (leading dots belong to the stem)
SplitExt(p) ==
    LET d == LastDot(p) IN
    IF d > 0 /\ \E k \in 1..(d - 1) : p[k] # "."
    THEN <<SubSeq(p, 1, d - 1), SubSeq(p, d, Len(p))>>
    ELSE <<p, <<>>>>

\* ------------------------------------------------------------ constants
CONVERTED_SUFFIX == <<"_","c","o","n","v","e","r","t","e","d">>
MP4 == <<".","m","p","4">>
VIDEO == <<"v","i","d","e","o">>

\* ---------------------------------------------------------- environment
\* file names the input folder may hold when the batch starts
InputNames ==
    { <<"a"," ","b",".","m">>,          \* "a b.m"   sanitizes to a_b.m
      <<"a","?","_","b",".","m">>,      \* "a?_b.m"  sanitizes to a_b.m
      <<"a","_","b",".","m">>,          \* "a_b.m"
      <<"a","_","b","_","1",".","m">>,  \* "a_b_1.m"
      <<"a","_","b",".","v">>,          \* "a_b.v"   same stem as a_b.m
      <<"a","#","b",".","m">>,          \* "a#b.m"   no trigger character
      <<"?","?",".","m">> }             \* "??.m"    sanitizes to .m

\* os.rename onto an existing file: POSIX replaces the file, Windows raises
RenameOntoExisting == {"replace", "FileExistsError"}

\* what `ffmpeg -version` does: runs, exits non-zero, or cannot be started
FfmpegStates == {"ok", "nonzero", "missing"}

\* outcomes of the validation probe (-select_streams v:0 -show_entries
\* stream=codec_type): exit status, stdout and the diagnostics on stderr
ProbeOutputs ==
    { [rc |-> 0, stdout |-> VIDEO, stderr |-> <<>>],
      [rc |-> 0, stdout |-> <<>>,  stderr |-> <<>>],
      [rc |-> 0, stdout |-> <<>>,  stderr |-> <<"b","a","d"," ","V","i","d","e","o"," ","h","d","r">>],
      [rc |-> 1, stdout |-> VIDEO, stderr |-> <<"b","a","d">>] }

\* durations (milliseconds) the metadata probe may report
Durations == {83000, 3725400}

\* outcomes of the metadata probe (-of json): exit status, whether the text
\* parses as JSON with the keys the code reads, and the duration
InspectOutputs ==
    { [rc |-> 1, parse |-> "ok", duration |-> 0],
      [rc |-> 0, parse |-> "garbage", duration |-> 0],
      [rc |-> 0, parse |-> "nokey", duration |-> 0] }
    \cup { [rc |-> 0, parse |-> "ok", duration |-> d] : d \in Durations }

\* files that earlier runs of the program may have left in converted_media
PriorOutputs == { <<"a","_","b">> \o CONVERTED_SUFFIX \o MP4 }

\* outcomes of one ffmpeg run: exit 0, or non-zero with or without a
\* partial output file left behind
TranscodeOutcomes == {"ok", "failed_partial", "failed_clean"}

\* ---------------------------------------------------------------- state
VARIABLES
    pc,             \* stage of the orchestrator
    exit,           \* "running", or the process exit status "0" / "1"
    exc,            \* the uncaught exception that ended the process
    ffmpeg,         \* state of the ffmpeg executable
    ffprobe,        \* TRUE when the ffprobe executable can be started
    inDir,          \* convert_media: the names of its files
    outDir,         \* converted_media: set of names
    log,            \* the kinds of message written to the log file
    snapshot,       \* files_in_convert of prepare_files
    todo,           \* entries of files_in_convert not yet iterated
    files,          \* the global `files`
    valid,          \* valid_video_files
    reported,       \* files whose probe exited 0 with a video stream on stdout
    idx,            \* loop index of the current per-file loop
    ctodo,          \* entries of converted_files not yet iterated
    ops,            \* kinds of operation performed on files in this run
    lastOutput,     \* output_file of the latest convert_video
    lastDuration,   \* duration_seconds of the latest inspection (ms)
    lastFormatted   \* formatted_duration of the latest inspection

vars == <<pc, exit, exc, ffmpeg, ffprobe, inDir, outDir, log,
          snapshot, todo, files, valid, reported, idx, ctodo, ops,
          lastOutput, lastDuration, lastFormatted>>

env == <<ffmpeg, ffprobe>>
mem == <<snapshot, todo, files, valid, reported, idx, ctodo>>
last == <<lastOutput, lastDuration, lastFormatted>>

None == <<>>

Running == exit = "running"

\* an exception nobody catches ends the process with status 1
Raise(e) == /\ exc' = e
            /\ exit' = "1"

Perms(S) ==
    { s \in [1..Cardinality(S) -> S] :
        \A i, j \in 1..Cardinality(S) : i # j => s[i] # s[j] }

Init ==
    /\ pc = "Init"
    /\ exit = "running"
    /\ exc = "none"
    /\ ffmpeg \in FfmpegStates
    /\ ffprobe \in BOOLEAN
    /\ inDir \in {S \in SUBSET InputNames : Cardinality(S) <= MaxFiles}
    /\ outDir \in SUBSET PriorOutputs
    /\ log = {}
    /\ snapshot = {}
    /\ todo = {}
    /\ files = <<>>
    /\ valid = <<>>
    /\ reported = <<>>
    /\ idx = 1
    /\ ctodo = {}
    /\ ops = {}
    /\ lastOutput = None
    /\ lastDuration = 0
    /\ lastFormatted = None

\* ---------------------------------------------------------- check_ffmpeg
CheckFfmpeg ==
    /\ Running /\ pc = "Init"
    /\ CASE ffmpeg = "ok" ->
              /\ pc' = "EngineChecked"
              /\ UNCHANGED <<exit, exc>>
         [] ffmpeg = "nonzero" ->          \* CalledProcessError: sys.exit(1)
              /\ exit' = "1"
              /\ UNCHANGED <<pc, exc>>
         [] OTHER ->                       \* the executable is not found
              /\ Raise("FileNotFoundError")
              /\ UNCHANGED pc
    /\ UNCHANGED <<env, inDir, outDir, log, mem, ops, last>>

SetupDirectories ==
    /\ Running /\ pc = "EngineChecked"
    /\ pc' = "DirectoriesReady"
    /\ UNCHANGED <<exit, exc, env, inDir, outDir, log, mem, ops, last>>

SetupLogging ==
    /\ Running /\ pc = "DirectoriesReady"
    /\ pc' = "LoggingReady"
    /\ log' = log \cup {"Logging initiated"}
    /\ UNCHANGED <<exit, exc, env, inDir, outDir, mem, ops, last>>

GenerateBatchId ==
    /\ Running /\ pc = "LoggingReady"
    /\ pc' = "BatchIdAssigned"
    /\ log' = log \cup {"Begin processing"}
    /\ UNCHANGED <<exit, exc, env, inDir, outDir, mem, ops, last>>

\* --------------------------------------------------------- prepare_files
\* any(char in r'~\/*?<>|:" ' for char in file)
HasTriggerChar(file) == \E i \in 1..Len(file) : file[i] \in TriggerChars

IsKept(c) == c \in KeptChars

\* re.sub(r"[^a-zA-Z0-9_ .]", "", file).replace(" ", "_")
Sanitize(file) ==
    LET stripped == SelectSeq(file, IsKept)
    IN  [i \in 1..Len(stripped) |->
            IF stripped[i] = " " THEN "_" ELSE stripped[i]]

\* the while loop of prepare_files: as long as <prefix>_<counter><ext>
\* exists it becomes the new name and the counter moves on
RECURSIVE CounterLoop(_, _, _, _, _)
CounterLoop(prefix, ext, counter, new_file_name, existing) ==
    LET candidate == prefix \o <<"_">> \o Str(counter) \o ext
    IN  IF candidate \in existing
        THEN CounterLoop(prefix, ext, counter + 1, candidate, existing)
        ELSE new_file_name

NewFileName(file, existing) ==
    LET sanitized == Sanitize(file)
        parts == SplitExt(sanitized)
    IN  CounterLoop(parts[1], parts[2], 1, sanitized, existing)

\* os.rename(src, dst) on a folder held as its set of names: a file that
\* was at dst is replaced
Rename(dir, src, dst) == (dir \ {src}) \cup {dst}

PrepareFilesBegin ==
    /\ Running /\ pc = "BatchIdAssigned"
    /\ pc' = "Sanitizing"
    /\ snapshot' = inDir
    /\ todo' = inDir
    /\ log' = log \cup {"Checking filenames"}
    /\ UNCHANGED <<exit, exc, env, inDir, outDir, files, valid, reported,
                   idx, ctodo, ops, last>>

\* one iteration of the loop over files_in_convert (os.listdir gives the
\* entries in no particular order)
PrepareFile ==
    /\ Running /\ pc = "Sanitizing"
    /\ \E file \in todo :
         /\ todo' = todo \ {file}
         /\ LET new_file_name == NewFileName(file, inDir) IN
            IF HasTriggerChar(file) /\ file # new_file_name
            THEN \E denied \in BOOLEAN, onExisting \in RenameOntoExisting :
                   CASE denied \/ new_file_name = <<>> ->
                          \* os.rename raises OSError; nothing catches it
                          /\ Raise("OSError")
                          /\ UNCHANGED <<inDir, log, ops>>
                     [] ~denied /\ new_file_name # <<>>
                          /\ onExisting = "FileExistsError"
                          /\ new_file_name \in inDir ->
                          /\ Raise("FileExistsError")
                          /\ UNCHANGED <<inDir, log, ops>>
                     [] OTHER ->
                          /\ inDir' = Rename(inDir, file, new_file_name)
                          /\ log' = log \cup {"Renamed file"}
                          /\ ops' = ops \cup {"rename"}
                          /\ UNCHANGED <<exit, exc>>
            ELSE UNCHANGED <<inDir, log, ops, exit, exc>>
    /\ UNCHANGED <<pc, env, outDir, snapshot, files, valid, reported, idx,
                   ctodo, last>>

PrepareFilesEnd ==
    /\ Running /\ pc = "Sanitizing" /\ todo = {}
    /\ pc' = "FilesSanitized"
    /\ snapshot' = {}
    /\ log' = log \cup {"Filenames prepared"}
    /\ UNCHANGED <<exit, exc, env, inDir, outDir, todo, files, valid, reported,
                   idx, ctodo, ops, last>>

\* ------------------------------------------------- discovery (main, 433)
DiscoverFiles ==
    /\ Running /\ pc = "FilesSanitized"
    /\ pc' = "FilesDiscovered"
    /\ files' \in Perms(inDir)
    /\ idx' = 1
    /\ UNCHANGED <<exit, exc, env, inDir, outDir, log, snapshot, todo,
                   valid, reported, ctodo, ops, last>>

\* -------------------------------------------------------- validate_files
\* "video" in ffprobe_output.lower(), stderr folded into stdout
OutputHasVideo(r) == Contains(Lower(r.stdout \o r.stderr), VIDEO)

\* one iteration of the loop over files
ValidateFile ==
    /\ Running /\ pc = "FilesDiscovered" /\ idx <= Len(files)
    /\ LET file == files[idx] IN
       IF ~ffprobe
       THEN \* subprocess cannot start ffprobe; only CalledProcessError is caught
            /\ Raise("FileNotFoundError")
            /\ UNCHANGED <<valid, reported, idx, log, ops>>
       ELSE \E r \in ProbeOutputs :
            /\ idx' = idx + 1
            /\ ops' = ops \cup {"probe"}
            /\ reported' = IF r.rc = 0 /\ r.stdout = VIDEO
                           THEN Append(reported, file) ELSE reported
            /\ CASE r.rc # 0 ->
                      /\ log' = log \cup {"Error running ffprobe"}
                      /\ UNCHANGED valid
                 [] r.rc = 0 /\ OutputHasVideo(r) ->
                      /\ valid' = Append(valid, file)
                      /\ UNCHANGED log
                 [] OTHER ->
                      /\ log' = log \cup {"No valid video stream"}
                      /\ UNCHANGED valid
            /\ UNCHANGED <<exit, exc>>
    /\ UNCHANGED <<pc, env, inDir, outDir, snapshot, todo, files, ctodo,
                   last>>

ValidateFilesEnd ==
    /\ Running /\ pc = "FilesDiscovered" /\ idx > Len(files)
    /\ pc' = "FilesValidated"
    /\ idx' = 1
    /\ UNCHANGED <<exit, exc, env, inDir, outDir, log, snapshot, todo,
                   files, valid, reported, ctodo, ops, last>>

\* --------------------------------------------------------- inspect_files
\* "{:.2f}".format(x) for x given in milliseconds (no width, no padding)
Fixed2(ms) ==
    LET cs == (ms + 5) \div 10
    IN  Str(cs \div 100) \o <<".">> \o Pad2(cs % 100)

\* "{:02}:{:02}:{:.2f}".format(int(d // 3600), int((d % 3600) // 60), d % 60)
\* for a duration d given in milliseconds
FormatDuration(ms) ==
    Pad2(ms \div 3600000) \o <<":">>
        \o Pad2((ms % 3600000) \div 60000) \o <<":">>
        \o Fixed2(ms % 60000)

\* the head of inspect_files, called from main only when the list is
\* non-empty (main, 441-442)
InspectFilesBegin ==
    /\ Running /\ pc = "FilesValidated" /\ valid # <<>>
    /\ IF valid = <<>>
       THEN /\ log' = log \cup {"No valid video files found"}
            /\ pc' = "PreInspected"
       ELSE /\ log' = log \cup {"Inspecting validated files"}
            /\ pc' = "PreInspecting"
    /\ idx' = 1
    /\ UNCHANGED <<exit, exc, env, inDir, outDir, snapshot, todo, files,
                   valid, reported, ctodo, ops, last>>

\* the body of the try block shared by inspect_files and
\* inspect_converted_files, for the probe outcome r of `file`
InspectOne(file, r) ==
    CASE r.rc # 0 ->                      \* CalledProcessError, caught
           /\ log' = log \cup {"Error inspecting"}
           /\ UNCHANGED <<exit, exc, lastDuration, lastFormatted>>
      [] r.rc = 0 /\ r.parse = "garbage" ->  \* json.loads raises
           /\ Raise("JSONDecodeError")
           /\ UNCHANGED <<log, lastDuration, lastFormatted>>
      [] r.rc = 0 /\ r.parse = "nokey" ->    \* data["format"]["duration"]
           /\ Raise("KeyError")
           /\ UNCHANGED <<log, lastDuration, lastFormatted>>
      [] OTHER ->
           /\ lastDuration' = r.duration
           /\ lastFormatted' = FormatDuration(r.duration)
           /\ log' = log \cup {"Duration"}
           /\ UNCHANGED <<exit, exc>>

\* one iteration of the loop over valid_video_files
InspectFile ==
    /\ Running /\ pc = "PreInspecting" /\ idx <= Len(valid)
    /\ \E r \in InspectOutputs :
         /\ InspectOne(valid[idx], r)
         /\ idx' = IF r.rc = 0 /\ r.parse # "ok" THEN idx ELSE idx + 1
    /\ ops' = ops \cup {"probe"}
    /\ UNCHANGED <<pc, env, inDir, outDir, snapshot, todo, files, valid,
                   reported, ctodo, lastOutput>>

InspectFilesEnd ==
    /\ Running /\ pc = "PreInspecting" /\ idx > Len(valid)
    /\ pc' = "PreInspected"
    /\ idx' = 1
    /\ log' = log \cup {"File inspection completed"}
    /\ lastDuration' = 0
    /\ lastFormatted' = None
    /\ UNCHANGED <<exit, exc, env, inDir, outDir, snapshot, todo, files,
                   valid, reported, ctodo, ops, lastOutput>>

\* -------------------------------------------------- get_output_file_path
RECURSIVE OutputLoop(_, _, _, _)
OutputLoop(prefix, counter, output_file_path, existing) ==
    IF output_file_path \in existing
    THEN OutputLoop(prefix, counter + 1,
                    prefix \o CONVERTED_SUFFIX \o <<"_">> \o Str(counter) \o MP4,
                    existing)
    ELSE output_file_path

\* get_output_file_path without its existence loop
GetOutputFilePathUnchecked(file, existing) ==
    SplitExt(file)[1] \o CONVERTED_SUFFIX \o MP4

\* `existing` is the content of converted_media at the moment of the call
GetOutputFilePath(file, existing) ==
    LET file_prefix == SplitExt(file)[1]
    IN  OutputLoop(file_prefix, 1, file_prefix \o CONVERTED_SUFFIX \o MP4,
                   existing)

\* --------------------------------------------------------- convert_video
ConvertVideo ==
    /\ Running /\ pc \in {"PreInspected", "Converted"} /\ idx <= Len(valid)
    /\ LET file == valid[idx]
           output_file == GetOutputFilePath(file, outDir)
       IN  \E outcome \in TranscodeOutcomes :
             /\ lastOutput' = output_file
             /\ outDir' = IF outcome \in {"ok", "failed_partial"}
                          THEN outDir \cup {output_file} ELSE outDir
             /\ log' = log \cup {"Start file conversion"}
                           \cup {IF outcome = "ok"
                                 THEN "Conversion complete"
                                 ELSE "Error converting file"}
    /\ pc' = "Converted"
    /\ idx' = idx + 1
    /\ ops' = ops \cup {"transcode"}
    /\ UNCHANGED <<exit, exc, env, inDir, snapshot, todo, files, valid,
                   reported, ctodo, lastDuration, lastFormatted>>

\* ----------------------------------------------- inspect_converted_files
InspectConvertedBegin ==
    /\ Running /\ pc \in {"PreInspected", "Converted"} /\ idx > Len(valid)
    /\ IF outDir = {}
       THEN /\ log' = log \cup {"No converted video files found"}
            /\ pc' = "PostInspected"
       ELSE /\ log' = log \cup {"Inspecting converted files"}
            /\ pc' = "PostInspecting"
    /\ ctodo' = outDir
    /\ lastOutput' = None
    /\ UNCHANGED <<exit, exc, env, inDir, outDir, snapshot, todo, files,
                   valid, reported, idx, ops, lastDuration, lastFormatted>>

\* one iteration of the loop over converted_files; the body does not read
\* what earlier iterations did, so one listing order stands for all
InspectConvertedFile ==
    /\ Running /\ pc = "PostInspecting" /\ ctodo # {}
    /\ LET file == CHOOSE f \in ctodo : TRUE IN
       \E r \in InspectOutputs :
         /\ InspectOne(file, r)
         /\ ctodo' = IF r.rc = 0 /\ r.parse # "ok" THEN ctodo
                     ELSE ctodo \ {file}
    /\ ops' = ops \cup {"probe"}
    /\ UNCHANGED <<pc, env, inDir, outDir, snapshot, todo, files, valid,
                   reported, idx, lastOutput>>

InspectConvertedEnd ==
    /\ Running /\ pc = "PostInspecting" /\ ctodo = {}
    /\ pc' = "PostInspected"
    /\ log' = log \cup {"Converted file inspection completed"}
    /\ lastDuration' = 0
    /\ lastFormatted' = None
    /\ UNCHANGED <<exit, exc, env, inDir, outDir, mem, ops, lastOutput>>

\* ------------------------------------------------------ main, line 449
ProcessingComplete ==
    /\ Running
    /\ \/ pc = "PostInspected"
       \/ pc = "FilesValidated" /\ valid = <<>>
    /\ pc' = "Done"
    /\ exit' = "0"
    /\ log' = log \cup {"Processing complete"}
    /\ UNCHANGED <<exc, env, inDir, outDir, mem, ops, last>>

Next ==
    \/ CheckFfmpeg
    \/ SetupDirectories
    \/ SetupLogging
    \/ GenerateBatchId
    \/ PrepareFilesBegin
    \/ PrepareFile
    \/ PrepareFilesEnd
    \/ DiscoverFiles
    \/ ValidateFile
    \/ ValidateFilesEnd
    \/ InspectFilesBegin
    \/ InspectFile
    \/ InspectFilesEnd
    \/ ConvertVideo
    \/ InspectConvertedBegin
    \/ InspectConvertedFile
    \/ InspectConvertedEnd
    \/ ProcessingComplete

Spec == Init /\ [][Next]_vars

\* ================================================================ claims

\* the class [A-Za-z0-9_.] of the sanitizer's contract
AllowedChars == Lowercase \cup Uppercase \cup Digits \cup {"_", "."}

\* stages reached only after prepare_files has returned
AfterSanitizing ==
    {"FilesSanitized", "FilesDiscovered", "FilesValidated", "PreInspecting",
     "PreInspected", "Converted", "PostInspecting", "PostInspected", "Done"}

\* C1: while prepare_files runs, no rename targets an existing name, so the
\* input folder holds as many files as it did when the pass started.
C1_SanitizeKeepsEveryFile ==
    pc = "Sanitizing" => Cardinality(inDir) = Cardinality(snapshot)

\* C2: once prepare_files has returned, every name in the input folder
\* consists only of characters of [A-Za-z0-9_.].
C2_NamesOnlyAllowedChars ==
    pc \in AfterSanitizing =>
        \A n \in inDir : \A i \in 1..Len(n) : n[i] \in AllowedChars

\* C3: a per-file failure during pre- or post-inspection (the probe fails or
\* returns unparsable or incomplete output) never ends the process: the
\* inspection loops are never left by an abnormal exit.
C3_InspectionFailureContained ==
    pc \in {"PreInspecting", "PostInspecting"} => exit = "running"

\* the n-th path of the sequence <stem>_converted.mp4,
\* <stem>_converted_1.mp4, <stem>_converted_2.mp4, ...
CandidatePath(stem, n) ==
    IF n = 0 THEN stem \o CONVERTED_SUFFIX \o MP4
    ELSE stem \o CONVERTED_SUFFIX \o <<"_">> \o Str(n) \o MP4

ConvertStep ==
    /\ pc \in {"PreInspected", "Converted"}
    /\ pc' = "Converted"
    /\ idx' = idx + 1

\* C4: every convert_video step is given the first path of the sequence
\* <stem>_converted.mp4, <stem>_converted_1.mp4, ... that is not in the
\* output folder at that moment; it is never an existing file, and no file
\* already in the output folder is replaced or removed.
C4_OutputPathIsFirstFree ==
    [][ ConvertStep =>
          LET stem == SplitExt(valid[idx])[1] IN
          /\ lastOutput' \notin outDir
          /\ \E n \in 0..Cardinality(outDir) :
                /\ lastOutput' = CandidatePath(stem, n)
                /\ \A j \in 0..(n - 1) : CandidatePath(stem, j) \in outDir
          /\ outDir \subseteq outDir'
          /\ outDir' \subseteq outDir \cup {lastOutput'} ]_vars

\* C4 witness: a conversion of a_b.* was given a_b_converted_1.mp4 because
\* a_b_converted.mp4 (from an earlier run or an earlier file of the batch)
\* was already there.
C4_Witness ==
    /\ pc = "Converted"
    /\ lastOutput = CandidatePath(<<"a","_","b">>, 1)
    /\ CandidatePath(<<"a","_","b">>, 0) \in outDir

\* C5: the list validate_files builds is exactly the list of the files whose
\* probe exited 0 and reported a video stream, in discovery order.
C5_ValidIsReported == valid = reported

\* C6: a run that ends with an empty validated set has logged the notice
\* that no valid video files were found.
C6_EmptyValidSetLogsNotice ==
    (pc = "Done" /\ valid = <<>>) => "No valid video files found" \in log

\* C7: a rename that fails during sanitization does not end the batch: the
\* sanitization pass is never left by an abnormal exit.
C7_RenameFailureContained ==
    pc = "Sanitizing" => exit = "running"

\* C8: when ffmpeg or ffprobe is unavailable the batch never completes and
\* no file is renamed, probed or transcoded.
C8_EngineUnavailableAbortsFirst ==
    (ffmpeg # "ok" \/ ~ffprobe) => (ops = {} /\ pc # "Done")

\* a name that is nothing but an extension: a dot followed by no other dot
ExtensionOnly(n) == Len(n) > 0 /\ n[1] = "." /\ LastDot(n) = 1

\* C9: no file of the input folder ever carries a name that consists only
\* of an extension (the names the folder starts with never do).
C9_NoExtensionOnlyName ==
    \A n \in inDir : ~ExtensionOnly(n)

\* HH:MM:SS.ss with every field zero-padded to two integer digits
PaddedDuration(ms) ==
    LET cs == ((ms % 60000) + 5) \div 10
    IN  Pad2(ms \div 3600000) \o <<":">>
            \o Pad2((ms % 3600000) \div 60000) \o <<":">>
            \o Pad2(cs \div 100) \o <<".">> \o Pad2(cs % 100)

\* C10: every duration the inspector formats comes out as HH:MM:SS.ss with
\* two-digit zero-padded hours, minutes and integer seconds.
C10_DurationIsPadded ==
    lastFormatted # None => lastFormatted = PaddedDuration(lastDuration)

====
